---- MODULE Spec2Model ----
(***************************************************************************)
(* Model of the restaurant menu service: the SQLite store defined by the   *)
(* schema script (tables MENU, ORDERS, ORDER_DETAILS and their seed rows)  *)
(* and the three Express handlers of app.js (GET /api/menu, POST           *)
(* /api/menu, DELETE /api/menu/:id), each a sequence of awaited steps:     *)
(* validate, open a connection, run one statement, close, respond.         *)
(*                                                                         *)
(* Money is counted in cents (12.50 is 1250).  Text that the code parses   *)
(* (the Price of a request body, the :id of a path) is a sequence of       *)
(* one-character strings, so that JavaScript's and SQLite's conversions    *)
(* are computed rather than assumed.                                       *)
(***************************************************************************)
EXTENDS Integers, Sequences, FiniteSets, TLC

VARIABLES menu, orders, orderDetails, pc, req, err, resp, openConns, ncalls,
          everHeld, log

vars == <<menu, orders, orderDetails, pc, req, err, resp, openConns, ncalls,
          everHeld, log>>

(* Bound on the number of API calls received in one behaviour. *)
MaxCalls == 2

(* The concurrent HTTP clients. *)
Clients == {"c1", "c2"}

-----------------------------------------------------------------------------
(* JSON values of a request body and SQL values of a column. *)

PNull == [t |-> "null", n |-> 0, s |-> <<>>]
PNum(n) == [t |-> "num", n |-> n, s |-> <<>>]
PStr(cs) == [t |-> "str", n |-> 0, s |-> cs]

TNull == [t |-> "null", s |-> ""]
TStr(s) == [t |-> "str", s |-> s]

SqlNum(n) == [t |-> "num", n |-> n, s |-> <<>>]
SqlText(cs) == [t |-> "text", n |-> 0, s |-> cs]

DigitVal(ch) ==
  CASE ch = "0" -> 0 [] ch = "1" -> 1 [] ch = "2" -> 2 [] ch = "3" -> 3
    [] ch = "4" -> 4 [] ch = "5" -> 5 [] ch = "6" -> 6 [] ch = "7" -> 7
    [] ch = "8" -> 8 [] ch = "9" -> 9 [] OTHER -> -1

IsDigits(cs) == Len(cs) > 0 /\ \A i \in 1..Len(cs) : DigitVal(cs[i]) >= 0

RECURSIVE DigitsVal(_)
DigitsVal(cs) ==
  IF cs = <<>> THEN 0
  ELSE DigitsVal(SubSeq(cs, 1, Len(cs) - 1)) * 10 + DigitVal(cs[Len(cs)])

(* A decimal integer literal with an optional sign: [ok, n]. *)
ParseInteger(cs) ==
  IF IsDigits(cs) THEN [ok |-> TRUE, n |-> DigitsVal(cs)]
  ELSE IF Len(cs) > 1 /\ cs[1] = "-" /\ IsDigits(Tail(cs))
       THEN [ok |-> TRUE, n |-> 0 - DigitsVal(Tail(cs))]
       ELSE [ok |-> FALSE, n |-> 0]

(* JavaScript ToNumber, as `Price < 0` applies it: null is 0, the empty    *)
(* string is 0, a numeric string is its value, any other string is NaN.    *)
JsToNumber(v) ==
  CASE v.t = "null" -> [nan |-> FALSE, n |-> 0]
    [] v.t = "num" -> [nan |-> FALSE, n |-> v.n]
    [] OTHER ->
         IF v.s = <<>> THEN [nan |-> FALSE, n |-> 0]
         ELSE IF ParseInteger(v.s).ok
              THEN [nan |-> FALSE, n |-> ParseInteger(v.s).n * 100]
              ELSE [nan |-> TRUE, n |-> 0]

(* A mistaken validation that looks at numbers only. *)
PriceIsNegativeNumbersOnly(Price) == Price.t = "num" /\ Price.n < 0

(* The test `Price < 0` of the POST handler; a comparison with NaN is false. *)
PriceIsNegative(Price) == ~JsToNumber(Price).nan /\ JsToNumber(Price).n < 0

(* NUMERIC affinity of the column Price DECIMAL(10, 2): a bound number is  *)
(* kept, text that is a well-formed literal becomes a number, other text   *)
(* is stored as text.                                                      *)
NumericAffinity(v) ==
  IF v.t = "num" THEN SqlNum(v.n)
  ELSE IF ParseInteger(v.s).ok THEN SqlNum(ParseInteger(v.s).n * 100)
       ELSE SqlText(v.s)

(* INTEGER affinity applied to the text bound to `FoodID = ?`: text that   *)
(* is an integer literal compares as that integer, other text equals no    *)
(* integer.                                                                *)
MatchesFoodID(FoodID, id) == ParseInteger(id).ok /\ ParseInteger(id).n = FoodID

-----------------------------------------------------------------------------
(* The schema and its seed rows. *)

SeedMenuRows == <<
  <<"Spaghetti Carbonara", 1250, "Classic Italian pasta with creamy sauce, bacon, and parmesan.">>,
  <<"Margherita Pizza", 1000, "Traditional pizza with tomato, mozzarella, and basil.">>,
  <<"Cheeseburger", 850, "Grilled beef patty with cheddar cheese, lettuce, and tomato.">>,
  <<"Caesar Salad", 700, "Fresh romaine lettuce, parmesan, croutons, and Caesar dressing.">>,
  <<"Fish Tacos", 950, "Soft tacos filled with grilled fish, slaw, and a creamy sauce.">>,
  <<"Chicken Alfredo", 1300, "Fettuccine pasta with creamy alfredo sauce and grilled chicken.">>,
  <<"Vegetable Stir-Fry", 1100, "Stir-fried vegetables with soy sauce and a hint of sesame oil.">>,
  <<"BBQ Ribs", 1500, "Tender pork ribs glazed with BBQ sauce, served with fries.">>,
  <<"Tuna Poke Bowl", 1400, "Fresh tuna, rice, avocado, and seaweed salad in a sesame dressing.">>,
  <<"Lamb Shawarma", 1600, "Slow-cooked lamb wrapped in pita with garlic sauce and vegetables.">> >>

SeedOrderRows == <<
  <<"2024-11-01 12:45:00", "John Doe", 3250>>,
  <<"2024-11-01 13:10:00", "Jane Smith", 2300>>,
  <<"2024-11-01 13:30:00", "Emily White", 4700>>,
  <<"2024-11-01 14:00:00", "Michael Brown", 2150>>,
  <<"2024-11-01 14:15:00", "Linda Green", 5000>>,
  <<"2024-11-02 16:00:00", "Chris Johnson", 1900>>,
  <<"2024-11-02 16:30:00", "Alice Davis", 3600>>,
  <<"2024-11-02 17:00:00", "David Miller", 2800>>,
  <<"2024-11-03 18:00:00", "Sophia Lee", 4450>>,
  <<"2024-11-03 18:30:00", "James Wilson", 6000>> >>

SeedOrderDetailRows == <<
  <<1, 1, 1>>, <<1, 3, 1>>, <<2, 2, 2>>, <<3, 4, 1>>, <<3, 6, 2>>,
  <<4, 7, 1>>, <<5, 8, 1>>, <<6, 9, 2>>, <<7, 5, 3>>, <<8, 10, 1>>,
  <<9, 2, 1>>, <<9, 3, 2>>, <<10, 6, 2>>, <<10, 7, 1>> >>

(* INTEGER PRIMARY KEY: the rows of one INSERT get the rowids 1, 2, ... *)
SeedMenu ==
  { [FoodID |-> i, FoodName |-> SeedMenuRows[i][1],
     Price |-> SqlNum(SeedMenuRows[i][2]),
     Description |-> SeedMenuRows[i][3]] : i \in 1..Len(SeedMenuRows) }

SeedOrders ==
  { [OrderID |-> i, OrderDate |-> SeedOrderRows[i][1],
     CustomerName |-> SeedOrderRows[i][2],
     OrderTotal |-> SeedOrderRows[i][3]] : i \in 1..Len(SeedOrderRows) }

SeedOrderDetails ==
  { [OrderDetailID |-> i, OrderID |-> SeedOrderDetailRows[i][1],
     FoodID |-> SeedOrderDetailRows[i][2],
     Quantity |-> SeedOrderDetailRows[i][3]] : i \in 1..Len(SeedOrderDetailRows) }

FoodIDs(m) == { r.FoodID : r \in m }
OrderIDs(o) == { r.OrderID : r \in o }

SetMax(S) == CHOOSE x \in S : \A y \in S : y <= x

(* A mistaken rowid rule: the number of rows plus one. *)
NextRowidByCount(m) == Cardinality(m) + 1

(* The rowid SQLite gives a new row of a table whose key is INTEGER        *)
(* PRIMARY KEY without AUTOINCREMENT: one more than the largest rowid in   *)
(* the table now.                                                          *)
NextRowid(m) == IF m = {} THEN 1 ELSE SetMax(FoodIDs(m)) + 1

(* Whether a connection enforces the FOREIGN KEY clauses.  SQLite leaves   *)
(* enforcement off on every new connection until PRAGMA foreign_keys = ON  *)
(* is run on it; getDBConnection opens the file and runs nothing.          *)
ForeignKeysEnabled == FALSE

-----------------------------------------------------------------------------
(* The statements the data access functions run. *)

(* A mistaken insert that overwrites the row already carrying the name. *)
InsertMenuStmtUpsert(m, FoodName, Price, Description) ==
  IF FoodName.t = "null" \/ Price.t = "null" \/ Description.t = "null"
  THEN [ok |-> FALSE, err |-> "SQLITE_CONSTRAINT: NOT NULL constraint failed", menu |-> m]
  ELSE LET same == { r \in m : r.FoodName = FoodName.s } IN
       [ok |-> TRUE, err |-> "",
        menu |-> IF same = {}
                 THEN m \cup { [FoodID |-> NextRowid(m), FoodName |-> FoodName.s,
                                  Price |-> NumericAffinity(Price),
                                  Description |-> Description.s] }
                 ELSE (m \ same) \cup
                      { [r EXCEPT !.Price = NumericAffinity(Price),
                                  !.Description = Description.s] : r \in same }]

(* INSERT INTO menu (FoodName, Price, Description) VALUES (?, ?, ?).  A    *)
(* JSON null binds as NULL and fails the NOT NULL constraint of its        *)
(* column; the statement then throws and changes nothing.                  *)
InsertMenuStmt(m, FoodName, Price, Description) ==
  IF FoodName.t = "null" \/ Price.t = "null" \/ Description.t = "null"
  THEN [ok |-> FALSE, err |-> "SQLITE_CONSTRAINT: NOT NULL constraint failed", menu |-> m]
  ELSE [ok |-> TRUE, err |-> "",
        menu |-> m \cup { [FoodID |-> NextRowid(m), FoodName |-> FoodName.s,
                            Price |-> NumericAffinity(Price),
                            Description |-> Description.s] }]

(* A mistaken delete that throws when no row matches. *)
DeleteMenuStmtStrict(m, od, fk, id) ==
  LET gone == { r \in m : MatchesFoodID(r.FoodID, id) } IN
  [ok |-> gone # {}, err |-> IF gone = {} THEN "SQLITE_NOTFOUND: no such row" ELSE "",
   menu |-> m \ gone,
   orderDetails |-> IF fk THEN { d \in od : d.FoodID \notin FoodIDs(gone) } ELSE od]

(* DELETE FROM menu WHERE FoodID = ?, on a connection whose foreign-key    *)
(* enforcement is fk.  ON DELETE CASCADE of OrderDetail_Menu acts only     *)
(* when fk is on.  Deleting no row is not an error.                        *)
DeleteMenuStmt(m, od, fk, id) ==
  LET gone == { r \in m : MatchesFoodID(r.FoodID, id) } IN
  [ok |-> TRUE, err |-> "",
   menu |-> m \ gone,
   orderDetails |-> IF fk THEN { d \in od : d.FoodID \notin FoodIDs(gone) } ELSE od]

(* DELETE FROM ORDERS WHERE OrderID = oid, on a connection whose           *)
(* foreign-key enforcement is fk (ON DELETE CASCADE of OrderDetail_Order). *)
DeleteOrderStmt(o, od, fk, oid) ==
  [orders |-> { r \in o : r.OrderID # oid },
   orderDetails |-> IF fk THEN { d \in od : d.OrderID # oid } ELSE od]

-----------------------------------------------------------------------------
(* Requests and responses. *)

NoReq == [op |-> "none", FoodName |-> TNull, Price |-> PNull, Description |-> TNull, id |-> <<>>]
GetReq == [op |-> "GET", FoodName |-> TNull, Price |-> PNull, Description |-> TNull, id |-> <<>>]
PostReq(FoodName, Price, Description) ==
  [op |-> "POST", FoodName |-> FoodName, Price |-> Price, Description |-> Description, id |-> <<>>]
DeleteReq(id) ==
  [op |-> "DELETE", FoodName |-> TNull, Price |-> PNull, Description |-> TNull, id |-> id]

(* The inputs the clients draw from. *)
FoodNames == {TStr("Test Food"), TNull}
Prices == {PNum(1599), PNum(0), PNum(-500), PStr(<<"5">>), PStr(<<"-", "5">>),
           PStr(<<>>), PStr(<<"a", "b", "c">>), PNull}
Descriptions == {TStr("A tasty test food")}
IdParams == {<<"1">>, <<"0", "3">>, <<"1", "0">>, <<"1", "1">>, <<"9", "9", "9">>,
             <<"a", "b", "c">>}

Requests ==
  {GetReq}
    \cup { PostReq(f, p, d) : f \in FoodNames, p \in Prices, d \in Descriptions }
    \cup { DeleteReq(i) : i \in IdParams }

(* A stored value as res.json writes it: a number, or a string. *)
ToJson(v) == IF v.t = "num" THEN PNum(v.n) ELSE PStr(v.s)

(* The rows of SELECT * FROM menu as the JSON objects of the listing. *)
ListMenu(m) ==
  { [FoodID |-> r.FoodID, FoodName |-> TStr(r.FoodName), Price |-> ToJson(r.Price),
     Description |-> TStr(r.Description)] : r \in m }

NoResp == [status |-> 0, message |-> "", error |-> "", items |-> {}]
Json(status, message, error, items) ==
  [status |-> status, message |-> message, error |-> error, items |-> items]

(* A mistaken handler that reports the thrown error's text. *)
ErrorBodyLeaky(op, e) == e

(* The body of each handler's catch block. *)
ErrorBody(op, e) ==
  CASE op = "GET" -> "Error retrieving menu items"
    [] op = "POST" -> "Internal Server Error: Please try again later."
    [] OTHER -> "Error deleting menu item"

SuccessMessage(op) ==
  CASE op = "POST" -> "Item added successfully"
    [] op = "DELETE" -> "Item deleted successfully"
    [] OTHER -> ""

OpenErrors == {"SQLITE_CANTOPEN: unable to open database file"}
RunErrors == {"SQLITE_BUSY: database is locked"}

-----------------------------------------------------------------------------
Init ==
  /\ menu = SeedMenu
  /\ orders = SeedOrders
  /\ orderDetails = SeedOrderDetails
  /\ pc = [c \in Clients |-> "idle"]
  /\ req = [c \in Clients |-> NoReq]
  /\ err = [c \in Clients |-> ""]
  /\ resp = [c \in Clients |-> NoResp]
  /\ openConns = 0
  /\ ncalls = 0
  /\ everHeld = FoodIDs(SeedMenu)
  /\ log = <<>>

Store == <<menu, orders, orderDetails>>

(* Express dispatches a request to its handler. *)
Receive(c) ==
  /\ pc[c] = "idle"
  /\ ncalls < MaxCalls
  /\ \E r \in Requests :
       /\ req' = [req EXCEPT ![c] = r]
       /\ pc' = [pc EXCEPT ![c] = IF r.op = "POST" THEN "validate" ELSE "open"]
  /\ resp' = [resp EXCEPT ![c] = NoResp]
  /\ ncalls' = ncalls + 1
  /\ UNCHANGED <<menu, orders, orderDetails, err, openConns, everHeld, log>>

(* POST /api/menu: if (Price < 0) return 400. *)
Validate(c) ==
  /\ pc[c] = "validate"
  /\ IF PriceIsNegative(req[c].Price)
     THEN /\ resp' = [resp EXCEPT ![c] = Json(400, "", "Price must be a positive number.", {})]
          /\ pc' = [pc EXCEPT ![c] = "idle"]
     ELSE /\ pc' = [pc EXCEPT ![c] = "open"]
          /\ UNCHANGED resp
  /\ UNCHANGED <<menu, orders, orderDetails, req, err, openConns, ncalls, everHeld, log>>

(* const db = await getDBConnection(): the connection is opened. *)
OpenOk(c) ==
  /\ pc[c] = "open"
  /\ openConns' = openConns + 1
  /\ pc' = [pc EXCEPT ![c] = "run"]
  /\ UNCHANGED <<menu, orders, orderDetails, req, err, resp, ncalls, everHeld, log>>

(* const db = await getDBConnection(): sqlite.open rejects. *)
OpenFail(c) ==
  /\ pc[c] = "open"
  /\ \E e \in OpenErrors : err' = [err EXCEPT ![c] = e]
  /\ pc' = [pc EXCEPT ![c] = "catch"]
  /\ UNCHANGED <<menu, orders, orderDetails, req, resp, openConns, ncalls, everHeld, log>>

(* The statement throws for a reason of the store's (busy, I/O): it has    *)
(* no effect, and the db.close() after it is not reached.                  *)
RunFail(c) ==
  /\ pc[c] = "run"
  /\ \E e \in RunErrors : err' = [err EXCEPT ![c] = e]
  /\ pc' = [pc EXCEPT ![c] = "catch"]
  /\ UNCHANGED <<menu, orders, orderDetails, req, resp, openConns, ncalls, everHeld, log>>

(* getMenuItemsFromDB: const items = await db.all("SELECT * FROM menu"). *)
RunSelect(c) ==
  /\ pc[c] = "run" /\ req[c].op = "GET"
  /\ resp' = [resp EXCEPT ![c] = Json(0, "", "", ListMenu(menu))]
  /\ pc' = [pc EXCEPT ![c] = "close"]
  /\ UNCHANGED <<menu, orders, orderDetails, req, err, openConns, ncalls, everHeld, log>>

(* insertMenuItem: await db.run("INSERT INTO menu ..."). *)
RunInsert(c) ==
  /\ pc[c] = "run" /\ req[c].op = "POST"
  /\ LET res == InsertMenuStmt(menu, req[c].FoodName, req[c].Price, req[c].Description) IN
       IF res.ok
       THEN /\ menu' = res.menu
            /\ everHeld' = everHeld \cup FoodIDs(res.menu)
            /\ log' = Append(log, req[c])
            /\ pc' = [pc EXCEPT ![c] = "close"]
            /\ UNCHANGED err
       ELSE /\ err' = [err EXCEPT ![c] = res.err]
            /\ pc' = [pc EXCEPT ![c] = "catch"]
            /\ UNCHANGED <<menu, everHeld, log>>
  /\ UNCHANGED <<orders, orderDetails, req, resp, openConns, ncalls>>

(* deleteMenuItemFromDB: await db.run("DELETE FROM menu WHERE FoodID = ?"). *)
RunDelete(c) ==
  /\ pc[c] = "run" /\ req[c].op = "DELETE"
  /\ LET res == DeleteMenuStmt(menu, orderDetails, ForeignKeysEnabled, req[c].id) IN
       IF res.ok
       THEN /\ menu' = res.menu
            /\ orderDetails' = res.orderDetails
            /\ log' = Append(log, req[c])
            /\ pc' = [pc EXCEPT ![c] = "close"]
            /\ UNCHANGED err
       ELSE /\ err' = [err EXCEPT ![c] = res.err]
            /\ pc' = [pc EXCEPT ![c] = "catch"]
            /\ UNCHANGED <<menu, orderDetails, log>>
  /\ UNCHANGED <<orders, req, resp, openConns, ncalls, everHeld>>

(* db.close(), then the data access function returns. *)
Close(c) ==
  /\ pc[c] = "close"
  /\ openConns' = openConns - 1
  /\ pc' = [pc EXCEPT ![c] = "respond"]
  /\ UNCHANGED <<menu, orders, orderDetails, req, err, resp, ncalls, everHeld, log>>

(* The try block's res.json(...). *)
Respond(c) ==
  /\ pc[c] = "respond"
  /\ resp' = [resp EXCEPT ![c] = Json(200, SuccessMessage(req[c].op), "", resp[c].items)]
  /\ pc' = [pc EXCEPT ![c] = "idle"]
  /\ UNCHANGED <<menu, orders, orderDetails, req, err, openConns, ncalls, everHeld, log>>

(* The catch block's res.status(500).json(...). *)
Catch(c) ==
  /\ pc[c] = "catch"
  /\ resp' = [resp EXCEPT ![c] = Json(500, "", ErrorBody(req[c].op, err[c]), {})]
  /\ err' = [err EXCEPT ![c] = ""]
  /\ pc' = [pc EXCEPT ![c] = "idle"]
  /\ UNCHANGED <<menu, orders, orderDetails, req, openConns, ncalls, everHeld, log>>

Next ==
  \E c \in Clients :
    \/ Receive(c)
    \/ Validate(c)
    \/ OpenOk(c)
    \/ OpenFail(c)
    \/ RunFail(c)
    \/ RunSelect(c)
    \/ RunInsert(c)
    \/ RunDelete(c)
    \/ Close(c)
    \/ Respond(c)
    \/ Catch(c)

Spec == Init /\ [][Next]_vars

(* An Order row is deleted in the store directly, outside the API, on a    *)
(* connection that may or may not have turned foreign-key enforcement on.  *)
AdminDeleteOrder ==
  /\ ncalls < MaxCalls
  /\ \E o \in orders : \E fk \in BOOLEAN :
       LET res == DeleteOrderStmt(orders, orderDetails, fk, o.OrderID) IN
         /\ orders' = res.orders
         /\ orderDetails' = res.orderDetails
  /\ ncalls' = ncalls + 1
  /\ UNCHANGED <<menu, pc, req, err, resp, openConns, everHeld, log>>

NextAdmin == Next \/ AdminDeleteOrder

SpecAdmin == Init /\ [][NextAdmin]_vars

-----------------------------------------------------------------------------
(* Replaying the log of statements that took effect, one at a time. *)

ApplyStmt(st, r) ==
  IF r.op = "POST"
  THEN [menu |-> InsertMenuStmt(st.menu, r.FoodName, r.Price, r.Description).menu,
        orderDetails |-> st.orderDetails]
  ELSE LET res == DeleteMenuStmt(st.menu, st.orderDetails, ForeignKeysEnabled, r.id) IN
       [menu |-> res.menu, orderDetails |-> res.orderDetails]

RECURSIVE ApplyLog(_)
ApplyLog(l) ==
  IF l = <<>> THEN [menu |-> SeedMenu, orderDetails |-> SeedOrderDetails]
  ELSE ApplyStmt(ApplyLog(SubSeq(l, 1, Len(l) - 1)), l[Len(l)])

-----------------------------------------------------------------------------
(* Properties. *)

Matching(m, id) == { r \in m : MatchesFoodID(r.FoodID, id) }

(* C1: a DELETE /api/menu/:id for the identity of an existing MenuItem     *)
(* answers 200 "Item deleted successfully"; its statement removes that row *)
(* from the listing, leaves every other MenuItem row listed unchanged, and *)
(* leaves no OrderDetail row whose FoodID is that identity.                *)
C1_DeleteRemovesItemAndItsDetails ==
  [][\A c \in Clients :
       /\ (RunDelete(c) /\ Matching(menu, req[c].id) # {}) =>
            /\ pc'[c] = "close"
            /\ Matching(menu', req[c].id) = {}
            /\ ListMenu(menu') = ListMenu(menu \ Matching(menu, req[c].id))
            /\ \A d \in orderDetails' : d.FoodID \notin FoodIDs(Matching(menu, req[c].id))
       /\ (Respond(c) /\ req[c].op = "DELETE") =>
            resp'[c] = Json(200, "Item deleted successfully", "", {})
  ]_vars

(* C2: in every reachable state every OrderDetail row's FoodID is the      *)
(* identity of an existing MenuItem and its OrderID that of an existing    *)
(* Order.                                                                  *)
C2_ReferentialIntegrity ==
  \A d \in orderDetails :
    d.FoodID \in FoodIDs(menu) /\ d.OrderID \in OrderIDs(orders)

(* C3: a POST /api/menu that succeeds answers 200 "Item added              *)
(* successfully" and its statement adds exactly one row to the listing:    *)
(* every row listed before is still listed, and the one new row carries    *)
(* the submitted FoodName and Description, the submitted Price (a number), *)
(* and a FoodID that no row listed before had and no other listed row has. *)
C3_CreateAddsOneFreshRow ==
  [][\A c \in Clients :
       /\ (RunInsert(c) /\ pc'[c] = "close") =>
            LET before == ListMenu(menu)
                after == ListMenu(menu')
            IN /\ before \subseteq after
               /\ Cardinality(after \ before) = 1
               /\ Cardinality(menu') = Cardinality(menu) + 1
               /\ \A r \in after \ before :
                    /\ r.FoodID \notin { q.FoodID : q \in before }
                    /\ \A q \in after : q.FoodID = r.FoodID => q = r
                    /\ r.FoodName = req[c].FoodName
                    /\ r.Description = req[c].Description
                    /\ (req[c].Price.t = "num" => r.Price = req[c].Price)
       /\ (Respond(c) /\ req[c].op = "POST") =>
            resp'[c] = Json(200, "Item added successfully", "", {})
  ]_vars

C3_Witness ==
  \E c \in Clients :
    /\ req[c].op = "POST" /\ req[c].Price = PNum(1599)
    /\ pc[c] = "idle" /\ resp[c].status = 200
    /\ \E r \in ListMenu(menu) :
         /\ r.FoodID \notin FoodIDs(SeedMenu)
         /\ r.FoodName = req[c].FoodName
         /\ r.Price = req[c].Price
         /\ r.Description = req[c].Description

(* The Price of a request body denotes an amount below zero, as a number   *)
(* or as the decimal text of one.                                          *)
DenotesNegative(v) ==
  \/ v.t = "num" /\ v.n < 0
  \/ v.t = "str" /\ ParseInteger(v.s).ok /\ ParseInteger(v.s).n < 0

(* C4: a POST /api/menu whose Price is negative is answered 400 "Price     *)
(* must be a positive number." straight from validation, with no           *)
(* connection opened and no table changed; and no MenuItem row ever holds  *)
(* a negative price.                                                       *)
C4_NegativePriceRejected ==
  /\ [](\A r \in menu : ~(r.Price.t = "num" /\ r.Price.n < 0))
  /\ [][\A c \in Clients :
          (pc[c] = "validate" /\ DenotesNegative(req[c].Price) /\ pc'[c] # "validate") =>
             /\ resp'[c] = Json(400, "", "Price must be a positive number.", {})
             /\ pc'[c] = "idle"
             /\ openConns' = openConns
             /\ Store' = Store
     ]_vars

C4_Witness ==
  \E c \in Clients :
    /\ req[c].op = "POST" /\ DenotesNegative(req[c].Price)
    /\ pc[c] = "idle" /\ resp[c].status = 400
    /\ menu = SeedMenu

(* C5: a DELETE /api/menu/:id for an identity no MenuItem has answers 200  *)
(* "Item deleted successfully" and changes none of the three tables; and   *)
(* after any delete statement, running it a second time for the same       *)
(* identity succeeds and leaves the store as the first run left it.        *)
C5_DeleteOfNothingIsANoOp ==
  [][\A c \in Clients :
       /\ (RunDelete(c) /\ Matching(menu, req[c].id) = {}) =>
            pc'[c] = "close" /\ Store' = Store
       /\ RunDelete(c) =>
            LET twice == DeleteMenuStmt(menu', orderDetails', ForeignKeysEnabled, req[c].id)
            IN twice.ok /\ twice.menu = menu' /\ twice.orderDetails = orderDetails'
       /\ (Respond(c) /\ req[c].op = "DELETE") =>
            resp'[c] = Json(200, "Item deleted successfully", "", {})
  ]_vars

C5_Witness ==
  \E c, d \in Clients :
    /\ c # d
    /\ req[c].op = "DELETE" /\ req[d] = req[c]
    /\ Matching(SeedMenu, req[c].id) # {}
    /\ pc[c] = "idle" /\ resp[c].status = 200
    /\ pc[d] = "idle" /\ resp[d].status = 200
    /\ menu = SeedMenu \ Matching(SeedMenu, req[c].id)

(* C6: when opening the connection or running the statement throws, the    *)
(* failing step changes no table and the call answers 500 with its         *)
(* endpoint's fixed body, whatever the thrown error says.                  *)
C6_StoreFailureIsOpaque500 ==
  [][\A c \in Clients :
       /\ (pc[c] # "catch" /\ pc'[c] = "catch") => Store' = Store
       /\ Catch(c) =>
            /\ Store' = Store
            /\ resp'[c] =
                 Json(500, "",
                      CASE req[c].op = "GET" -> "Error retrieving menu items"
                        [] req[c].op = "POST" -> "Internal Server Error: Please try again later."
                        [] req[c].op = "DELETE" -> "Error deleting menu item",
                      {})
  ]_vars

C6_Witness ==
  \E c, d \in Clients :
    /\ req[c].op = "POST" /\ pc[c] = "idle" /\ resp[c].status = 500
    /\ req[d].op = "DELETE" /\ pc[d] = "idle" /\ resp[d].status = 500
    /\ Store = <<SeedMenu, SeedOrders, SeedOrderDetails>>

(* C7: deleting an Order row in the store leaves no OrderDetail row with   *)
(* that OrderID and leaves the OrderDetail rows of every other order       *)
(* unchanged.                                                              *)
C7_DeleteOrderCascades ==
  [][AdminDeleteOrder =>
       LET gone == OrderIDs(orders) \ OrderIDs(orders') IN
         /\ \A d \in orderDetails' : d.OrderID \notin gone
         /\ orderDetails' = { d \in orderDetails : d.OrderID \notin gone }
  ]_vars

(* C8: once every call has finished, no connection is open.                *)
C8_ConnectionsReleased ==
  (\A c \in Clients : pc[c] = "idle") => openConns = 0

(* C9: under every interleaving of the handlers' steps the tables are      *)
(* those given by running the statements that took effect one at a time    *)
(* in some order, and no listing is taken in a state where a MenuItem is   *)
(* gone while OrderDetail rows of it remain.                               *)
C9_SerializedAndCascadeObserved ==
  /\ [](<<menu, orderDetails>> = <<ApplyLog(log).menu, ApplyLog(log).orderDetails>>)
  /\ [][\A c \in Clients :
          RunSelect(c) =>
            \A d \in orderDetails : d.FoodID \in everHeld => d.FoodID \in FoodIDs(menu)
     ]_vars

(* C10: a create never assigns an identity that a MenuItem, present or     *)
(* deleted, has held before.                                               *)
C10_IdentityNeverReused ==
  [][\A c \in Clients :
       (RunInsert(c) /\ pc'[c] = "close") =>
         \A r \in menu' \ menu : r.FoodID \notin everHeld
  ]_vars

(* C11: no step of a GET /api/menu call changes a table; no step of any   *)
(* API call changes the FoodName, Price, Description or FoodID of a        *)
(* MenuItem row that exists before and after it; and the Orders table      *)
(* equals its seeded contents in every reachable state.                    *)
C11_FrameOfTheApi ==
  /\ [](orders = SeedOrders)
  /\ [][/\ \A c \in Clients :
            (pc'[c] # pc[c] /\ req'[c].op = "GET") => Store' = Store
        /\ \A r \in menu : \A q \in menu' : q.FoodID = r.FoodID => q = r
        /\ orders' = orders
     ]_vars

C11_Witness ==
  \E c, d \in Clients :
    /\ req[c].op = "GET" /\ pc[c] = "idle" /\ resp[c].status = 200
    /\ req[d].op = "POST" /\ pc[d] = "idle" /\ resp[d].status = 200
    /\ resp[c].items = ListMenu(menu)
    /\ SeedMenu \subseteq menu /\ menu # SeedMenu
    /\ orders = SeedOrders

====
